---- MODULE Spec2Model ----
(***************************************************************************)
(* StandardProject (task registry wiring, command derivation) and          *)
(* Renovatebot (ignoreDeps computation) of projen.                         *)
(*                                                                         *)
(* Task objects live in a heap: `task` is the sequence of all Task objects *)
(* ever created and a Task reference is an index into it.  A removed task  *)
(* stays in the heap (the caller holds the reference removeTask returned), *)
(* it only leaves `registry`.                                              *)
(***************************************************************************)
EXTENDS Integers, Sequences, FiniteSets, TLC

\* ---------------------------------------------------------------- bounds
MaxCalls == 5        \* calls made on one project after its construction
MaxBots == 2         \* projects built with a Renovatebot from the caller's options
MaxDeps == 2         \* dependencies added to one project

\* ---------------------------------------------------------------- values
Undefined == "<undefined>"     \* the JavaScript value undefined, for strings
Absent == 0                    \* undefined, where a Task reference is expected

DEFAULT_TASK == "default"
Names == {DEFAULT_TASK, "eject", "build"}
\* The TaskOptions the callers pass to addTask.
TaskOptions == {[description |-> Undefined, env |-> {}],
                [description |-> "Full build", env |-> {<<"CI", "true">>}]}
PROJEN_VERSION == "0.71.7"     \* the version token imported from ./common
CommandOptions == {Undefined, "pnpm exec projen"}

DepNames == {"projen", "jest"}
DepVersions == {Undefined, "^1.0.0"}
\* What the caller's `ignore` array holds before any Renovatebot is built.
CallerIgnores == {<<>>, <<"jest">>, <<"lodash", "jest">>}
CallerIgnore == 1              \* the reference to the caller's `ignore` array
NoArray == 0                   \* undefined, where an array reference is expected
IgnoreProjenOptions == {Undefined, "true", "false"}

VARIABLES
    registry,        \* Tasks: the registered Task references, in insertion order
    task,            \* heap of Task objects: name, description, env, spawns
    ejected,         \* Project.ejected
    projenCommand,   \* StandardProject.projenCommand
    defaultTask,     \* StandardProject.defaultTask (Absent when ejected)
    ejectTask,       \* StandardProject.ejectTask (Absent when ejected)
    calls,           \* the number of calls made since construction
    op,              \* the last call: its kind and arguments
    ret,             \* what the last call returned
    err,             \* what the last call threw ("none" when it returned)
    deps,            \* per project: Dependencies.all, a list of [name, version]
    arrays,          \* heap of string arrays (array 1 is the caller's `ignore`)
    bots             \* the Renovatebot of each project built so far

taskVars == <<registry, task, ejected, projenCommand, defaultTask, ejectTask>>
callVars == <<op, ret, err, calls>>
botVars == <<deps, arrays, bots>>
vars == <<taskVars, callVars, botVars>>

\* ------------------------------------------------------- sequence helpers
RECURSIVE SelectSeqBy(_, _)
\* Array.prototype.filter on a sequence of Task references.
SelectSeqBy(s, keep) ==
    IF s = <<>> THEN <<>>
    ELSE IF Head(s) \in keep THEN <<Head(s)>> \o SelectSeqBy(Tail(s), keep)
    ELSE SelectSeqBy(Tail(s), keep)

Range(s) == {s[i] : i \in DOMAIN s}

\* ------------------------------------------------------------- the heap
\* A project's task state: P.registry and P.task.
Heap(reg, tsk) == [registry |-> reg, task |-> tsk]

Result(reg, tsk, r, e) == [registry |-> reg, task |-> tsk, ret |-> r, err |-> e]

\* Tasks.get(name): the registered task of that name, or undefined.
Tasks_get(P, name) ==
    IF \E i \in DOMAIN P.registry : P.task[P.registry[i]].name = name
    THEN P.registry[CHOOSE i \in DOMAIN P.registry :
                        P.task[P.registry[i]].name = name]
    ELSE Absent

\* Tasks.all(): the registered tasks, in insertion order.
Tasks_all(P) == P.registry

\* Tasks.addTask(name, options).
Tasks_addTask(P, name, options) ==
    IF Tasks_get(P, name) # Absent
    THEN Result(P.registry, P.task, Absent, "DuplicateTaskError")
    ELSE LET t == [name |-> name,
                   description |-> options.description,
                   env |-> options.env,
                   spawns |-> <<>>]
             id == Len(P.task) + 1
         IN Result(Append(P.registry, id), Append(P.task, t), id, "none")

\* Tasks.removeTask(name) that forgets the spawn lists of the other tasks.
Tasks_removeTask_NoPrune(P, name) ==
    LET id == Tasks_get(P, name)
    IN IF id = Absent
       THEN Result(P.registry, P.task, Absent, "none")
       ELSE Result(SelectSeqBy(P.registry, Range(P.registry) \ {id}),
                   P.task, id, "none")

\* Tasks.removeTask(name): the removed task leaves the registry and every
\* spawn list of the tasks that stay registered.
Tasks_removeTask(P, name) ==
    LET id == Tasks_get(P, name)
        rest == SelectSeqBy(P.registry, Range(P.registry) \ {id})
        pruned == [t \in DOMAIN P.task |->
                     IF t \in Range(rest)
                     THEN [P.task[t] EXCEPT
                             !.spawns = SelectSeqBy(@, DOMAIN P.task \ {id})]
                     ELSE P.task[t]]
    IN IF id = Absent
       THEN Result(P.registry, P.task, Absent, "none")
       ELSE Result(rest, pruned, id, "none")

\* Task.spawn(child) without the check for the task itself.
Task_spawn_NoSelfCheck(P, t, child) ==
    Result(P.registry, [P.task EXCEPT ![t].spawns = Append(@, child)],
           Absent, "none")

\* Task.spawn(child), called on task t.
Task_spawn(P, t, child) ==
    IF child = t
    THEN Result(P.registry, P.task, Absent, "SelfSpawnError")
    ELSE Result(P.registry,
                [P.task EXCEPT ![t].spawns = Append(@, child)],
                Absent, "none")

\* ------------------------------------------------------ StandardProject
\* The constructor without the `if (this.ejected)` branch.
StandardProject_constructor_NoEjectedBranch(isEjected, commandOption) ==
    LET r1 == Tasks_addTask(Heap(<<>>, <<>>), DEFAULT_TASK,
                  [description |-> "Synthesize project files", env |-> {}])
        r2 == Tasks_addTask(r1, "eject",
                  [description |-> "Remove projen from the project",
                   env |-> {<<"PROJEN_EJECTING", "true">>}])
        r3 == Task_spawn(r2, r2.ret, r1.ret)
    IN [registry |-> r3.registry, task |-> r3.task,
        projenCommand |-> IF commandOption = Undefined
                          THEN "npx projen" ELSE commandOption,
        defaultTask |-> r1.ret, ejectTask |-> r2.ret]

\* The constructor with the spawn the wrong way round:
\* this.defaultTask.spawn(this.ejectTask).
StandardProject_constructor_SpawnReversed(isEjected, commandOption) ==
    LET P0 == Heap(<<>>, <<>>)
        r1 == Tasks_addTask(P0, DEFAULT_TASK,
                  [description |-> "Synthesize project files", env |-> {}])
        r2 == Tasks_addTask(r1, "eject",
                  [description |-> "Remove projen from the project",
                   env |-> {<<"PROJEN_EJECTING", "true">>}])
        r3 == Task_spawn(r2, r1.ret, r2.ret)
    IN IF isEjected
       THEN [registry |-> P0.registry, task |-> P0.task,
             projenCommand |-> "scripts/run-task",
             defaultTask |-> Absent, ejectTask |-> Absent]
       ELSE [registry |-> r3.registry, task |-> r3.task,
             projenCommand |-> IF commandOption = Undefined
                               THEN "npx projen" ELSE commandOption,
             defaultTask |-> r1.ret, ejectTask |-> r2.ret]

\* new StandardProject(options), as far as tasks and the command go.  The
\* collaborators it also creates (ProjectBuild, the ignore files, Projenrc)
\* are not part of these sources and are left out.
StandardProject_constructor(isEjected, commandOption) ==
    LET P0 == Heap(<<>>, <<>>)
        r1 == Tasks_addTask(P0, DEFAULT_TASK,
                  [description |-> "Synthesize project files", env |-> {}])
        r2 == Tasks_addTask(r1, "eject",
                  [description |-> "Remove projen from the project",
                   env |-> {<<"PROJEN_EJECTING", "true">>}])
        r3 == Task_spawn(r2, r2.ret, r1.ret)
    IN IF isEjected
       THEN [registry |-> P0.registry, task |-> P0.task,
             projenCommand |-> "scripts/run-task",
             defaultTask |-> Absent, ejectTask |-> Absent]
       ELSE [registry |-> r3.registry, task |-> r3.task,
             projenCommand |-> IF commandOption = Undefined
                               THEN "npx projen" ELSE commandOption,
             defaultTask |-> r1.ret, ejectTask |-> r2.ret]

\* addTask that hands back the task already registered under the name.
StandardProject_addTask_GetOrCreate(P, name, props) ==
    IF Tasks_get(P, name) # Absent
    THEN Result(P.registry, P.task, Tasks_get(P, name), "none")
    ELSE Tasks_addTask(P, name, props)

\* addTask that does not pass the props on: this.tasks.addTask(name).
StandardProject_addTask_DropsProps(P, name, props) ==
    Tasks_addTask(P, name, [description |-> Undefined, env |-> {}])

\* StandardProject.addTask(name, props).
StandardProject_addTask(P, name, props) == Tasks_addTask(P, name, props)

\* removeTask without the `return`.
StandardProject_removeTask_NoReturn(P, name) ==
    [Tasks_removeTask(P, name) EXCEPT !.ret = Absent]

\* StandardProject.removeTask(name).
StandardProject_removeTask(P, name) == Tasks_removeTask(P, name)

\* runTaskCommand reading the wrong field of the task.
StandardProject_runTaskCommand_Description(version, t) ==
    "npx projen@" \o version \o " " \o t.description

\* StandardProject.runTaskCommand(task).
StandardProject_runTaskCommand(version, t) ==
    "npx projen@" \o version \o " " \o t.name

Cur == Heap(registry, task)

Init ==
    /\ ejected \in BOOLEAN
    /\ calls = 0
    /\ \E c \in CommandOptions :
         LET p == StandardProject_constructor(ejected, c)
         IN /\ registry = p.registry
            /\ task = p.task
            /\ projenCommand = p.projenCommand
            /\ defaultTask = p.defaultTask
            /\ ejectTask = p.ejectTask
    /\ op = [kind |-> "new"]
    /\ ret = Absent
    /\ err = "none"
    /\ deps = <<>>
    /\ arrays = <<>>
    /\ bots = <<>>

Apply(r) ==
    /\ registry' = r.registry
    /\ task' = r.task
    /\ ret' = r.ret
    /\ err' = r.err

AddTask ==
    \E n \in Names, o \in TaskOptions :
      /\ calls < MaxCalls
      /\ Apply(StandardProject_addTask(Cur, n, o))
      /\ op' = [kind |-> "addTask", name |-> n, props |-> o]
      /\ calls' = calls + 1
      /\ UNCHANGED <<ejected, projenCommand, defaultTask, ejectTask, botVars>>

RemoveTask ==
    \E n \in Names :
      /\ calls < MaxCalls
      /\ Apply(StandardProject_removeTask(Cur, n))
      /\ op' = [kind |-> "removeTask", name |-> n]
      /\ calls' = calls + 1
      /\ UNCHANGED <<ejected, projenCommand, defaultTask, ejectTask, botVars>>

Spawn ==
    \E t \in DOMAIN task, c \in DOMAIN task :
      /\ calls < MaxCalls
      /\ Apply(Task_spawn(Cur, t, c))
      /\ op' = [kind |-> "spawn", task |-> t, child |-> c]
      /\ calls' = calls + 1
      /\ UNCHANGED <<ejected, projenCommand, defaultTask, ejectTask, botVars>>

RunTaskCommand ==
    \E t \in DOMAIN task :
      /\ calls < MaxCalls
      /\ ret' = StandardProject_runTaskCommand(PROJEN_VERSION, task[t])
      /\ err' = "none"
      /\ op' = [kind |-> "runTaskCommand", task |-> t]
      /\ calls' = calls + 1
      /\ UNCHANGED <<taskVars, botVars>>

Next == AddTask \/ RemoveTask \/ Spawn \/ RunTaskCommand

Spec == Init /\ [][Next]_vars

\* ------------------------------------------------------ claims on tasks
IsCall(kind) == op'.kind = kind /\ calls' = calls + 1

\* The position of x in the sequence s.
Pos(s, x) == CHOOSE i \in DOMAIN s : s[i] = x

\* The names of the tasks of a sequence of Task references.
NamesOf(tsk, s) == [i \in DOMAIN s |-> tsk[s[i]].name]

\* C1: addTask under a name that is already registered fails with
\* DuplicateTaskError and leaves the registry and every task as they were.
C1_DuplicateAddFails ==
    [][(IsCall("addTask") /\ Tasks_get(Cur, op'.name) # Absent)
         => /\ err' = "DuplicateTaskError"
            /\ registry' = registry
            /\ task' = task]_vars

\* A failed addTask whose props differ from the registered task's.
C1_Witness ==
    /\ op.kind = "addTask"
    /\ err = "DuplicateTaskError"
    /\ Len(registry) >= 2
    /\ task[Tasks_get(Cur, op.name)].description # op.props.description

\* No registered task has a removed task in its spawn list.
NoRemovedSpawned ==
    \A t \in Range(registry) : Range(task[t].spawns) \subseteq Range(registry)

\* C2 as claimed: after any sequence of addTask, spawn and removeTask calls
\* no registered task has a removed task in its spawn list.
C2_NoRemovedSpawnedEver == NoRemovedSpawned

\* C2 as amended: removeTask of a registered task leaves no reference to it
\* in the spawn list of any task that stays registered, and every call
\* keeps the spawn lists free of removed tasks except a spawn that is
\* handed a task removed earlier.
C2_RemovePrunes ==
    [][/\ (IsCall("removeTask") /\ Tasks_get(Cur, op'.name) # Absent)
            => \A t \in Range(registry') :
                   Tasks_get(Cur, op'.name) \notin Range(task'[t].spawns)
       /\ (NoRemovedSpawned
             /\ ~(IsCall("spawn") /\ op'.child \notin Range(registry)))
            => NoRemovedSpawned']_vars

\* "default" was removed and eject, still registered, no longer spawns it.
C2_Witness ==
    /\ op.kind = "removeTask"
    /\ ret # Absent
    /\ ret = defaultTask
    /\ ejectTask \in Range(registry)
    /\ task[ejectTask].spawns = <<>>

\* C3 as claimed: in ejected mode construction creates no "default" and no
\* "eject" task and runTaskCommand returns the fixed local script.
C3_EjectedRunsLocalScript ==
    ejected =>
      /\ calls = 0 => registry = <<>>
      /\ op.kind = "runTaskCommand" => ret = "scripts/run-task"

\* C3 as amended: in ejected mode construction creates no task and sets
\* projenCommand to the fixed local script, whatever the options say;
\* runTaskCommand still returns the versioned form with the task's name.
C3_EjectedCommand ==
    ejected =>
      /\ calls = 0 => (registry = <<>> /\ task = <<>>)
      /\ defaultTask = Absent /\ ejectTask = Absent
      /\ projenCommand = "scripts/run-task"
      /\ op.kind = "runTaskCommand"
           => ret = "npx projen@0.71.7 " \o task[op.task].name

\* runTaskCommand has run on a task of an ejected project.
C3_Witness ==
    /\ ejected
    /\ op.kind = "runTaskCommand"
    /\ ret = "npx projen@0.71.7 build"

\* C4: removeTask returns the task registered under the name and takes it
\* out of the registry, or returns undefined and changes nothing when the
\* name is not registered; the other tasks stay registered, in their order.
C4_RemoveTask ==
    [][IsCall("removeTask") =>
         LET id == Tasks_get(Cur, op'.name)
         IN /\ err' = "none"
            /\ ret' = id
            /\ Tasks_get(Heap(registry', task'), op'.name) = Absent
            /\ id = Absent => (registry' = registry /\ task' = task)
            /\ Range(registry') = Range(registry) \ {id}
            /\ Len(registry') = Cardinality(Range(registry'))
            /\ \A i, j \in DOMAIN registry' :
                 i < j => Pos(registry, registry'[i]) < Pos(registry, registry'[j])
            /\ \A t \in Range(registry') :
                 /\ task'[t].name = task[t].name
                 /\ task'[t].description = task[t].description
                 /\ task'[t].env = task[t].env]_vars

\* A task was removed and returned while others stay registered.
C4_Witness ==
    /\ op.kind = "removeTask"
    /\ ret # Absent
    /\ task[ret].name = op.name
    /\ Len(registry) >= 2

\* C5: a project constructed in normal mode has the tasks "default" and
\* "eject", in that order, eject spawns exactly "default" and its
\* environment maps PROJEN_EJECTING to "true".
C5_DefaultAndEject ==
    (~ejected /\ calls = 0) =>
      /\ NamesOf(task, Tasks_all(Cur)) = <<"default", "eject">>
      /\ defaultTask = Tasks_get(Cur, "default")
      /\ ejectTask = Tasks_get(Cur, "eject")
      /\ NamesOf(task, task[ejectTask].spawns) = <<"default">>
      /\ task[defaultTask].spawns = <<>>
      /\ {p \in task[ejectTask].env : p[1] = "PROJEN_EJECTING"}
           = {<<"PROJEN_EJECTING", "true">>}

\* A project in normal mode, right after its construction.
C5_Witness ==
    /\ ~ejected
    /\ calls = 0
    /\ Len(registry) = 2

\* No task has itself in its spawn list.
NoSelfSpawn == \A t \in DOMAIN task : t \notin Range(task[t].spawns)

\* C6: t.spawn(t) fails with SelfSpawnError and leaves the spawn list as it
\* was, t.spawn(c) appends c to t's spawn list, and no task ever has itself
\* in its spawn list.
C6_Spawn ==
    /\ NoSelfSpawn
    /\ [][/\ NoSelfSpawn'
          /\ IsCall("spawn") =>
               IF op'.child = op'.task
               THEN /\ err' = "SelfSpawnError"
                    /\ task' = task
                    /\ registry' = registry
               ELSE /\ err' = "none"
                    /\ task'[op'.task].spawns
                         = Append(task[op'.task].spawns, op'.child)
                    /\ \A u \in DOMAIN task \ {op'.task} : task'[u] = task[u]
                    /\ registry' = registry]_vars

\* A task that already spawns another was asked to spawn itself.
C6_Witness ==
    /\ op.kind = "spawn"
    /\ err = "SelfSpawnError"
    /\ op.task = op.child
    /\ Len(task[op.task].spawns) >= 1

\* C7: runTaskCommand changes neither the registry nor a task nor the
\* command prefix, and its result is decided by the task's name alone: it is
\* what any task of that name gives, and what the call before gave for a
\* task of that name.
C7_RunTaskCommandPure ==
    [][IsCall("runTaskCommand") =>
         /\ registry' = registry
         /\ task' = task
         /\ projenCommand' = projenCommand
         /\ err' = "none"
         /\ \A u \in DOMAIN task :
              task[u].name = task[op'.task].name
                => StandardProject_runTaskCommand(PROJEN_VERSION, task[u]) = ret'
         /\ (op.kind = "runTaskCommand"
               /\ task[op.task].name = task[op'.task].name) => ret' = ret]_vars

\* runTaskCommand has run on a task while another task object has the same
\* name and another description.
C7_Witness ==
    /\ op.kind = "runTaskCommand"
    /\ \E u \in DOMAIN task :
         /\ u # op.task
         /\ task[u].name = task[op.task].name
         /\ task[u].description # task[op.task].description

\* C8: addTask under a name that is not registered returns a new task with
\* that name, description and environment, get(name) then returns it and
\* all() lists it last, after the tasks registered before, in their order.
C8_AddThenGet ==
    [][(IsCall("addTask") /\ Tasks_get(Cur, op'.name) = Absent) =>
         /\ err' = "none"
         /\ ret' \notin DOMAIN task
         /\ ret' \in DOMAIN task'
         /\ Tasks_get(Heap(registry', task'), op'.name) = ret'
         /\ task'[ret'].name = op'.name
         /\ task'[ret'].description = op'.props.description
         /\ task'[ret'].env = op'.props.env
         /\ Tasks_all(Heap(registry', task')) = Append(Tasks_all(Cur), ret')
         /\ \A u \in DOMAIN task : task'[u] = task[u]]_vars

\* A third task was added with a description and an environment.
C8_Witness ==
    /\ op.kind = "addTask"
    /\ err = "none"
    /\ Len(registry) >= 3
    /\ registry[Len(registry)] = ret
    /\ op.props.description # Undefined

\* ---------------------------------------------------------- Renovatebot
\* a ?? b
Nullish(a, b) == IF a = Undefined THEN b ELSE a

RECURSIVE DedupFrom(_, _)
\* [...new Set(s)]: the first occurrence of every element, in order.
DedupFrom(s, seen) ==
    IF s = <<>> THEN <<>>
    ELSE IF Head(s) \in seen THEN DedupFrom(Tail(s), seen)
    ELSE <<Head(s)>> \o DedupFrom(Tail(s), seen \cup {Head(s)})

RECURSIVE VersionedNames(_)
\* deps.all.filter((dep) => dep.version).map((dep) => dep.name)
VersionedNames(ds) ==
    IF ds = <<>> THEN <<>>
    ELSE IF Head(ds).version # Undefined
         THEN <<Head(ds).name>> \o VersionedNames(Tail(ds))
         ELSE VersionedNames(Tail(ds))

\* new Renovatebot(project, options) on array heap A: explicitIgnores is the
\* caller's array itself when options.ignore is given, a new array otherwise.
Renovatebot_constructor(A, options) ==
    LET A1 == IF options.ignore = NoArray THEN Append(A, <<>>) ELSE A
        ref == IF options.ignore = NoArray THEN Len(A) + 1 ELSE options.ignore
        A2 == IF Nullish(options.ignoreProjen, "true") = "true"
              THEN [A1 EXCEPT ![ref] = Append(@, "projen")]
              ELSE A1
    IN [arrays |-> A2,
        bot |-> [explicitIgnores |-> ref,
                 ignore |-> IF options.ignore = NoArray
                            THEN <<>> ELSE A[options.ignore],
                 ignoreProjen |-> options.ignoreProjen,
                 synthesized |-> FALSE,
                 ignoreDeps |-> <<>>]]

\* Renovatebot.createRenovateConfiguration(): the ignoreDeps of renovate.json5.
Renovatebot_createRenovateConfiguration(A, ds, bot) ==
    DedupFrom(VersionedNames(ds) \o A[bot.explicitIgnores], {})

\* Dependencies.addDependency, as far as Dependencies.all shows it.
Dependencies_addDependency(ds, name, version) ==
    Append(ds, [name |-> name, version |-> version])

InitRenovate ==
    /\ ejected = FALSE
    /\ calls = 0
    /\ LET p == StandardProject_constructor(FALSE, Undefined)
       IN /\ registry = p.registry
          /\ task = p.task
          /\ projenCommand = p.projenCommand
          /\ defaultTask = p.defaultTask
          /\ ejectTask = p.ejectTask
    /\ op = [kind |-> "new"]
    /\ ret = Absent
    /\ err = "none"
    /\ deps = <<>>
    /\ \E a \in CallerIgnores : arrays = <<a>>
    /\ bots = <<>>

\* new StandardProject({renovatebot: true, renovatebotOptions}), the options
\* either leaving `ignore` out or passing the caller's array.
NewRenovatebot ==
    \E ig \in {NoArray, CallerIgnore}, ip \in IgnoreProjenOptions :
      /\ Len(bots) < MaxBots
      /\ LET r == Renovatebot_constructor(arrays,
                       [ignore |-> ig, ignoreProjen |-> ip])
         IN /\ arrays' = r.arrays
            /\ bots' = Append(bots, r.bot)
      /\ deps' = Append(deps, <<>>)
      /\ op' = [kind |-> "newRenovatebot", ignore |-> ig, ignoreProjen |-> ip]
      /\ UNCHANGED <<taskVars, ret, err, calls>>

AddDependency ==
    \E b \in DOMAIN bots, n \in DepNames, v \in DepVersions :
      /\ ~bots[b].synthesized
      /\ Len(deps[b]) < MaxDeps
      /\ deps' = [deps EXCEPT ![b] = Dependencies_addDependency(@, n, v)]
      /\ op' = [kind |-> "addDependency", bot |-> b]
      /\ UNCHANGED <<taskVars, ret, err, calls, arrays, bots>>

PreSynthesize ==
    \E b \in DOMAIN bots :
      /\ ~bots[b].synthesized
      /\ bots' = [bots EXCEPT
                    ![b].synthesized = TRUE,
                    ![b].ignoreDeps =
                       Renovatebot_createRenovateConfiguration(
                           arrays, deps[b], bots[b])]
      /\ op' = [kind |-> "preSynthesize", bot |-> b]
      /\ UNCHANGED <<taskVars, ret, err, calls, arrays, deps>>

NextRenovate == NewRenovatebot \/ AddDependency \/ PreSynthesize

SpecRenovate == InitRenovate /\ [][NextRenovate]_vars

\* ------------------------------------------------ claims on Renovatebot
\* C9: the ignoreDeps a Renovatebot writes at preSynthesize hold no name
\* twice and are, as a set, the names of the project's dependencies that
\* have a version at that time, the names of the `ignore` option it was
\* constructed with, and "projen" unless its ignoreProjen option is false.
C9_IgnoreDeps ==
    \A b \in DOMAIN bots :
      bots[b].synthesized =>
        LET out == bots[b].ignoreDeps
            versioned == {d.name : d \in {x \in Range(deps[b]) :
                                            x.version # Undefined}}
        IN /\ Len(out) = Cardinality(Range(out))
           /\ Range(out) =
                versioned \cup Range(bots[b].ignore)
                  \cup (IF bots[b].ignoreProjen = "false"
                        THEN {} ELSE {"projen"})

\* C10: constructing a Renovatebot leaves the `ignore` array of the options
\* it is given as it was.
C10_OptionsUnchanged ==
    [][(op'.kind = "newRenovatebot" /\ Len(bots') = Len(bots) + 1
          /\ op'.ignore # NoArray)
         => arrays'[op'.ignore] = arrays[op'.ignore]]_vars

====
